---- MODULE Spec2Model ----
(***************************************************************************)
(* Glossary overlay of a bilingual reading page (Ciaran931/IWEdraft).      *)
(*                                                                         *)
(* The repository holds six versions of one script:                        *)
(*   popupA     src/unnamed/part_000 lines  1-30                           *)
(*   popupB     src/unnamed/part_000 lines 32-60                           *)
(*   popupC     src/unnamed/part_002                                       *)
(*   sidebar    src/js/app.js        lines 63-98                           *)
(*   sentenceA  src/js/app.js        lines  1-61                           *)
(*   sentenceB  src/unnamed/part_001                                       *)
(* Each run of the model is a run of one of them (variable `variant`).     *)
(*                                                                         *)
(* Events are handled one at a time and run to completion: the resolution  *)
(* or rejection of the words.json load, a click on an element of the page, *)
(* and a click on the close control of the popup.                          *)
(***************************************************************************)
EXTENDS Integers, Sequences, FiniteSets, TLC

(***************************************************************************)
(* Bounds                                                                  *)
(***************************************************************************)
\* longest words.json array that is enumerated
MaxDict == 2

(***************************************************************************)
(* JavaScript values                                                       *)
(***************************************************************************)
\* the value `undefined` (absent attribute, absent property, find() miss)
Undefined == "<undefined>"
\* the value `null` of an element register
NoElement == "<null>"

\* `${v}` : template-literal conversion of a string or undefined
ToStr(v) == IF v = Undefined THEN "undefined" ELSE v

\* truthiness of a string or undefined, as used by `||` and `? :`
Truthy(v) == v # Undefined /\ v # ""

\* v || '-'
OrDash(v) == IF Truthy(v) THEN v ELSE "-"

(***************************************************************************)
(* The variants                                                            *)
(***************************************************************************)
PopupVariants    == {"popupA", "popupB", "popupC"}
SentenceVariants == {"sentenceA", "sentenceB"}
SidebarVariants  == {"sidebar"} \cup SentenceVariants
Variants         == PopupVariants \cup SidebarVariants

(***************************************************************************)
(* The host page (consumed by the code, not owned by it)                   *)
(***************************************************************************)
\* elements carrying class "word"
Words == {"w1", "w2", "w3", "w4", "w5", "w6", "w7"}
\* elements carrying class "english-sentence"
EnglishSentences == {"e1", "e2", "e3", "e4", "e5"}
\* elements carrying class "polish-sentence", in document order
PolishOrder == <<"t1", "t2", "t3", "t3b", "t5", "t6">>
PolishSentences == {PolishOrder[i] : i \in 1..Len(PolishOrder)}
Sentences == EnglishSentences \cup PolishSentences
\* elements carrying class "paragraph"
Paragraphs == {"p1", "p2"}
\* the close control of the popup
closeBtn == "close-popup"
\* click targets without class "word" (the close control is handled apart)
OtherTargets == {"body", "e1"}
Elements == Words \cup Sentences \cup Paragraphs \cup {"body", closeBtn}

\* variant of IsWord: every click target is taken for a word
IsWord_any(e) == e \in Elements

\* e.target.classList.contains("word")
IsWord(e) == e \in Words

\* e.target.dataset.id
DataId(w) ==
  CASE w = "w1" -> "a"
    [] w = "w2" -> "b"
    [] w = "w3" -> "a"
    [] w = "w4" -> "zz"
    [] w = "w5" -> Undefined
    [] w = "w6" -> "b"
    [] w = "w7" -> "zz"
    [] OTHER    -> Undefined

\* the parent of an element: the sentence element a word sits in, or the body
WordParent(w) ==
  CASE w = "w1" -> "e1"
    [] w = "w2" -> "e2"
    [] w = "w3" -> "t1"
    [] w = "w4" -> "body"
    [] w = "w5" -> "e3"
    [] w = "w6" -> "e4"
    [] w = "w7" -> "e5"
    [] OTHER    -> "body"

\* the paragraph a sentence sits in, or NoElement
SentenceParagraph(s) ==
  CASE s \in {"e1", "e2", "t1"} -> "p1"
    [] s \in {"e3", "e5", "t2", "t3", "t3b", "t5"} -> "p2"
    [] OTHER -> NoElement

\* sentence.dataset.sentence
DataSentence(s) ==
  CASE s \in {"e1", "e3", "e4", "t1", "t3", "t3b", "t6"} -> "1"
    [] s \in {"e2", "t2"} -> "2"
    [] s = "t5" -> "undefined"
    [] OTHER -> Undefined

\* variant of ClosestEnglishSentence: a sentence of either language is accepted
ClosestEnglishSentence_anySentence(w) ==
  IF WordParent(w) \in Sentences THEN WordParent(w) ELSE NoElement

\* selectedWordElement.closest(".english-sentence")
ClosestEnglishSentence(w) ==
  IF WordParent(w) \in EnglishSentences THEN WordParent(w) ELSE NoElement

\* sentenceEN.closest(".paragraph")
ClosestParagraph(s) == SentenceParagraph(s)

\* variant of QuerySelectorPolish: document.querySelector, the paragraph is ignored
QuerySelectorPolish_document(p, n) ==
  LET hits == {i \in 1..Len(PolishOrder) : DataSentence(PolishOrder[i]) = ToStr(n)}
  IN IF hits = {} THEN NoElement
     ELSE PolishOrder[CHOOSE i \in hits : \A j \in hits : i <= j]

\* paragraph.querySelector(`.polish-sentence[data-sentence="${n}"]`):
\* the first match in document order, or NoElement
QuerySelectorPolish(p, n) ==
  LET hits == {i \in 1..Len(PolishOrder) :
                 /\ SentenceParagraph(PolishOrder[i]) = p
                 /\ DataSentence(PolishOrder[i]) = ToStr(n)}
  IN IF hits = {} THEN NoElement
     ELSE PolishOrder[CHOOSE i \in hits : \A j \in hits : i <= j]

(***************************************************************************)
(* words.json                                                              *)
(***************************************************************************)
Entry(k, i, w, p, en, pl, den, dpl, tr, ex) ==
  [kind |-> k, id |-> i, word |-> w, pos |-> p,
   en_definition |-> en, pl_definition |-> pl,
   definition_en |-> den, definition_pl |-> dpl,
   pl_translation |-> tr, example |-> ex]

U == Undefined
\* an entry in the schema the scripts read (en_definition, pl_definition)
EntA  == Entry("object", "a", "appreciate", "verb", "to value", "doceniac",
               U, U, "doceniac", "I appreciate it")
\* a second entry with id "a", without part of speech and example
EntA2 == Entry("object", "a", "alter", U, "to change", "zmieniac",
               U, U, "zmieniac", U)
\* an entry in the schema of the spec (definition_en, definition_pl)
EntB  == Entry("object", "b", "borrow", "verb", U, U,
               "to take for a time", "pozyczac", U, U)
\* an object without an id property
EntNoId == Entry("object", U, "nameless", "", "no id", "bez id",
                 U, U, "bez", U)
\* the array element null
NullItem == Entry("null", U, U, U, U, U, U, U, U, U)

Items == {EntA, EntA2, EntB, EntNoId, NullItem}

RECURSIVE SeqsUpTo(_, _)
SeqsUpTo(S, n) ==
  IF n = 0 THEN {<<>>}
  ELSE LET shorter == SeqsUpTo(S, n - 1)
       IN shorter \cup {Append(s, x) : s \in {t \in shorter : Len(t) = n - 1}, x \in S}

\* a JSON array
ArrayValue(items) == [isArray |-> TRUE, items |-> items]
\* a JSON value that is no array (object, number, string, boolean, null)
NotArray == [isArray |-> FALSE, items |-> <<>>]
\* let dictionary = [];
EmptyDictionary == ArrayValue(<<>>)

\* what res.json() can resolve to
JsonValues == {ArrayValue(s) : s \in SeqsUpTo(Items, MaxDict)} \cup {NotArray}

(***************************************************************************)
(* Lookup: dictionary.find(w => w.id === id)                               *)
(***************************************************************************)
FindResult(r, i) == [res |-> r, index |-> i]

RECURSIVE FindFrom(_, _, _)
FindFrom(items, id, i) ==
  IF i > Len(items) THEN FindResult("undefined", 0)
  ELSE IF items[i].kind = "null" THEN FindResult("TypeError", 0)
  ELSE IF items[i].id = id THEN FindResult("found", i)
  ELSE FindFrom(items, id, i + 1)

\* variant of Find: findLast, the last match wins
Find_last(d, id) ==
  LET r == IF ~d.isArray THEN FindResult("TypeError", 0) ELSE FindFrom(d.items, id, 1)
      hits == {i \in 1..Len(d.items) : d.items[i].kind = "object" /\ d.items[i].id = id}
  IN IF r.res = "found"
     THEN FindResult("found", CHOOSE i \in hits : \A j \in hits : j <= i)
     ELSE r

\* variant of Find: an empty dictionary is an error
Find_emptyThrows(d, id) ==
  IF ~d.isArray \/ d.items = << >> THEN FindResult("TypeError", 0)
  ELSE FindFrom(d.items, id, 1)

Find(d, id) ==
  IF ~d.isArray THEN FindResult("TypeError", 0)
  ELSE FindFrom(d.items, id, 1)

(***************************************************************************)
(* Presenter: the innerHTML each variant writes, as the sequence of its    *)
(* text pieces                                                             *)
(***************************************************************************)
RenderPopupA(word) ==
  << ToStr(word.word), ToStr(word.pos),
     "EN:", ToStr(word.en_definition),
     "PL:", ToStr(word.pl_definition),
     "Translation:", ToStr(word.pl_translation) >>

RenderPopupB(word) ==
  << ToStr(word.word), ToStr(word.pos),
     "EN:", ToStr(word.definition_en),
     "PL:", ToStr(word.definition_pl) >>

RenderPopupC(word) ==
  << ToStr(word.word), OrDash(word.pos),
     "Translation:", OrDash(word.pl_translation),
     "EN Definition:", OrDash(word.en_definition),
     "PL Definition:", OrDash(word.pl_definition) >>
  \o (IF Truthy(word.example) THEN << "Example:", ToStr(word.example) >> ELSE << "" >>)

RenderSidebar(word) ==
  << "Word:", ToStr(word.word),
     "Part of Speech:", ToStr(word.pos),
     "EN Definition:", ToStr(word.en_definition),
     "PL Definition:", ToStr(word.pl_definition),
     "Translation:", ToStr(word.pl_translation),
     "Example:", ToStr(word.example) >>

RenderSentenceB(word) ==
  << ToStr(word.word), ToStr(word.pos),
     ToStr(word.pl_translation),
     "EN:", ToStr(word.en_definition),
     "PL:", ToStr(word.pl_definition),
     ToStr(word.example) >>

Render(v, word) ==
  CASE v = "popupA"    -> RenderPopupA(word)
    [] v = "popupB"    -> RenderPopupB(word)
    [] v = "popupC"    -> RenderPopupC(word)
    [] v = "sidebar"   -> RenderSidebar(word)
    [] v = "sentenceA" -> RenderSidebar(word)
    [] v = "sentenceB" -> RenderSentenceB(word)

\* the markup of the display container before any render
InitialContent == << >>

(***************************************************************************)
(* State                                                                   *)
(***************************************************************************)
VARIABLES
  variant,                \* which version of the script runs
  loadState,              \* "pending", "resolved" or "rejected"
  dictionary,             \* let dictionary
  selectedWordElement,    \* let selectedWordElement
  selected,               \* the elements whose classList holds "selected"
  highlightedSentenceEN,  \* let highlightedSentenceEN
  highlightedSentencePL,  \* let highlightedSentencePL
  highlighted,            \* the elements whose classList holds "sentence-highlight"
  content,                \* innerHTML of popup-content / sidebar-content
  hidden,                 \* the display container's classList holds "hidden"
  event,                  \* the event handled last: "none", "load", "reject" or the click target
  threw                   \* the click listener of the last click ended in an uncaught TypeError

vars == << variant, loadState, dictionary, selectedWordElement, selected,
           highlightedSentenceEN, highlightedSentencePL, highlighted,
           content, hidden, event, threw >>

selectionVars == << selectedWordElement, selected, highlightedSentenceEN,
                    highlightedSentencePL, highlighted >>

Init ==
  /\ variant \in Variants
  /\ loadState = "pending"
  /\ dictionary = EmptyDictionary
  /\ selectedWordElement = NoElement
  /\ selected = {}
  /\ highlightedSentenceEN = NoElement
  /\ highlightedSentencePL = NoElement
  /\ highlighted = {}
  /\ content = InitialContent
  /\ hidden \in BOOLEAN
  /\ event = "none"
  /\ threw = FALSE

(***************************************************************************)
(* Dictionary Loader: fetch("words.json").then(res => res.json())          *)
(*                      .then(data => dictionary = data)                   *)
(***************************************************************************)
\* variant of LoadResolve: the load may settle again and assign again
LoadResolve_again(data) ==
  /\ loadState \in {"pending", "resolved"}
  /\ loadState' = "resolved"
  /\ dictionary' = data
  /\ event' = "load"
  /\ UNCHANGED << variant, selectionVars, content, hidden, threw >>

\* variant of LoadResolve: the entry of the selected word is shown once loaded
LoadResolve_rerender(data) ==
  /\ loadState = "pending"
  /\ loadState' = "resolved"
  /\ dictionary' = data
  /\ event' = "load"
  /\ content' = IF selectedWordElement # NoElement
                   /\ Find(data, DataId(selectedWordElement)).res = "found"
                THEN Render(variant,
                            data.items[Find(data, DataId(selectedWordElement)).index])
                ELSE content
  /\ UNCHANGED << variant, selectionVars, hidden, threw >>

\* the fetch and the parse succeed: whatever was parsed is assigned
LoadResolve(data) ==
  /\ loadState = "pending"
  /\ loadState' = "resolved"
  /\ dictionary' = data
  /\ event' = "load"
  /\ UNCHANGED << variant, selectionVars, content, hidden, threw >>

\* the fetch rejects or the body is no JSON: the assignment never runs
LoadReject ==
  /\ loadState = "pending"
  /\ loadState' = "rejected"
  /\ event' = "reject"
  /\ UNCHANGED << variant, dictionary, selectionVars, content, hidden, threw >>

(***************************************************************************)
(* Steps of the click listener                                             *)
(***************************************************************************)
\* variant of WordData: a miss falls back to the first entry
WordData_fallback(w) ==
  LET r == Find(dictionary, DataId(w))
  IN IF r.res = "undefined" /\ dictionary.items # << >> THEN FindResult("found", 1) ELSE r

\* const wordData = dictionary.find(w => w.id === e.target.dataset.id)
WordData(w) == Find(dictionary, DataId(w))

\* variant of ShowContent: innerHTML += instead of innerHTML =
ShowContent_append(v, word) == content \o Render(v, word)

\* showPopup / showSidebar write innerHTML
ShowContent(v, word) == Render(v, word)

\* variant of ShowHidden: the marker is never removed
ShowHidden_keep(v, h) == h

\* popup.classList.remove("hidden") in showPopup; showSidebar has no such line
ShowHidden(v, h) == IF v \in PopupVariants THEN FALSE ELSE h

\* if (wordData) showPopup(wordData) / showSidebar(wordData)
Present(w) ==
  LET wordData == WordData(w)
  IN /\ threw' = (wordData.res = "TypeError")
     /\ IF wordData.res = "found"
        THEN /\ content' = ShowContent(variant, dictionary.items[wordData.index])
             /\ hidden' = ShowHidden(variant, hidden)
        ELSE UNCHANGED << content, hidden >>

\* variant of DeselectPrevious: the previous word keeps its marker
DeselectPrevious_keep(sel, prev) == sel

\* if (selectedWordElement) selectedWordElement.classList.remove("selected")
DeselectPrevious(sel, prev) == IF prev # NoElement THEN sel \ {prev} ELSE sel

\* variant of SelectWord: classList.toggle("selected") on the clicked word
SelectWord_toggle(w) ==
  /\ selectedWordElement' = w
  /\ selected' = IF w \in selected
                 THEN DeselectPrevious(selected, selectedWordElement) \ {w}
                 ELSE DeselectPrevious(selected, selectedWordElement) \cup {w}

\* the word highlight: deselect, store, select
SelectWord(w) ==
  /\ selectedWordElement' = w
  /\ selected' = DeselectPrevious(selected, selectedWordElement) \cup {w}

\* variant of ClearSentences: the previous highlights are kept
ClearSentences_none(hl, en, pl) == hl

\* variant of ClearSentences: only the source side is cleared
ClearSentences_sourceOnly(hl, en, pl) == IF en # NoElement THEN hl \ {en} ELSE hl

\* if (highlightedSentenceEN) ... remove; if (highlightedSentencePL) ... remove
ClearSentences(hl, en, pl) ==
  (IF en # NoElement THEN hl \ {en} ELSE hl) \ (IF pl # NoElement THEN {pl} ELSE {})

\* const sentenceEN
SentenceENOf(w) == ClosestEnglishSentence(w)

\* const plSentence (NoElement when there is no sentenceEN or no paragraph)
SentencePLOf(w) ==
  LET sentenceEN == SentenceENOf(w)
      paragraph  == IF sentenceEN # NoElement THEN ClosestParagraph(sentenceEN)
                    ELSE NoElement
  IN IF paragraph # NoElement
     THEN QuerySelectorPolish(paragraph, DataSentence(sentenceEN))
     ELSE NoElement

\* the sentence highlight: clear both, then mark and store what is found
HighlightSentences(w) ==
  LET sentenceEN == SentenceENOf(w)
      plSentence == SentencePLOf(w)
  IN /\ highlighted' =
          ClearSentences(highlighted, highlightedSentenceEN, highlightedSentencePL)
            \cup ({sentenceEN, plSentence} \ {NoElement})
     /\ highlightedSentenceEN' =
          IF sentenceEN # NoElement THEN sentenceEN ELSE highlightedSentenceEN
     /\ highlightedSentencePL' =
          IF plSentence # NoElement THEN plSentence ELSE highlightedSentencePL

\* a click the listener ignores
Ignore ==
  /\ threw' = FALSE
  /\ UNCHANGED << selectionVars, content, hidden >>

ClickTargets == Words \cup OtherTargets

(***************************************************************************)
(* The click listeners                                                     *)
(***************************************************************************)
\* part_000 11-16, 42-47; part_002 11-16
PopupClick(e) ==
  /\ variant \in PopupVariants
  /\ event' = e
  /\ IF IsWord(e)
     THEN Present(e) /\ UNCHANGED selectionVars
     ELSE Ignore
  /\ UNCHANGED << variant, loadState, dictionary >>

\* app.js 72-87
SidebarClick(e) ==
  /\ variant = "sidebar"
  /\ event' = e
  /\ IF IsWord(e)
     THEN /\ SelectWord(e)
          /\ UNCHANGED << highlightedSentenceEN, highlightedSentencePL, highlighted >>
          /\ Present(e)
     ELSE Ignore
  /\ UNCHANGED << variant, loadState, dictionary >>

\* app.js 15-50; part_001 15-50
SentenceClick(e) ==
  /\ variant \in SentenceVariants
  /\ event' = e
  /\ IF IsWord(e)
     THEN /\ SelectWord(e)
          /\ HighlightSentences(e)
          /\ Present(e)
     ELSE Ignore
  /\ UNCHANGED << variant, loadState, dictionary >>

\* variant of CloseClick: closing also empties the content
CloseClick_clear ==
  /\ variant \in PopupVariants
  /\ event' = closeBtn
  /\ hidden' = TRUE
  /\ content' = InitialContent
  /\ threw' = FALSE
  /\ UNCHANGED << variant, loadState, dictionary, selectionVars >>

\* variant of CloseClick: classList.toggle("hidden")
CloseClick_toggle ==
  /\ variant \in PopupVariants
  /\ event' = closeBtn
  /\ hidden' = ~hidden
  /\ threw' = FALSE
  /\ UNCHANGED << variant, loadState, dictionary, selectionVars, content >>

\* closeBtn listener, then the document listener with e.target = closeBtn
CloseClick ==
  /\ variant \in PopupVariants
  /\ event' = closeBtn
  /\ hidden' = TRUE
  /\ threw' = FALSE
  /\ UNCHANGED << variant, loadState, dictionary, selectionVars, content >>

Next ==
  \/ \E data \in JsonValues : LoadResolve(data)
  \/ LoadReject
  \/ \E e \in ClickTargets : PopupClick(e)
  \/ \E e \in ClickTargets : SidebarClick(e)
  \/ \E e \in ClickTargets : SentenceClick(e)
  \/ CloseClick

Spec == Init /\ [][Next]_vars

TypeOK ==
  /\ variant \in Variants
  /\ loadState \in {"pending", "resolved", "rejected"}
  /\ dictionary \in JsonValues
  /\ selectedWordElement \in Words \cup {NoElement}
  /\ selected \subseteq Elements
  /\ highlightedSentenceEN \in EnglishSentences \cup {NoElement}
  /\ highlightedSentencePL \in PolishSentences \cup {NoElement}
  /\ highlighted \subseteq Elements
  /\ hidden \in BOOLEAN
  /\ event \in Elements \cup {"none", "load", "reject"}
  /\ threw \in BOOLEAN

(***************************************************************************)
(* Vocabulary of the properties                                            *)
(***************************************************************************)
\* the value is an array whose elements are all entry objects
IsArrayOfEntries(d) ==
  d.isArray /\ \A i \in 1..Len(d.items) : d.items[i].kind = "object"

\* positions of the entries whose id is the identifier
Matches(d, id) ==
  {i \in 1..Len(d.items) : d.items[i].kind = "object" /\ d.items[i].id = id}

\* the identifier is absent from the dictionary
IdAbsent(d, id) == Matches(d, id) = {}

\* the identifier is present in a dictionary of entries
IdPresent(d, id) == IsArrayOfEntries(d) /\ Matches(d, id) # {}

\* the first entry of the dictionary with the identifier
FirstEntry(d, id) ==
  d.items[CHOOSE i \in Matches(d, id) : \A j \in Matches(d, id) : i <= j]

(***************************************************************************)
(* C1. Sidebar variants: at most one element is marked "selected"; when    *)
(* one is, it is the element stored in selectedWordElement, which is the   *)
(* word clicked last; a click on a word leaves exactly that word marked.   *)
(***************************************************************************)
C1_Step ==
  variant \in SidebarVariants =>
    /\ Cardinality(selected') <= 1
    /\ (selected' # {}) => (selected' = {selectedWordElement'})
    /\ IF event' \in Words
       THEN selected' = {event'} /\ selectedWordElement' = event'
       ELSE selected' = selected /\ selectedWordElement' = selectedWordElement

C1_SingleSelectedWord == [][C1_Step]_vars

\* w2 is the marked word after w1 (whose target sentence t1 is still stored) was
C1_Witness ==
  /\ variant \in SentenceVariants
  /\ event = "w2"
  /\ selected = {"w2"}
  /\ highlightedSentencePL = "t1"

(***************************************************************************)
(* C2. Sentence variants: at most one source sentence and at most one      *)
(* target sentence carry "sentence-highlight".                             *)
(***************************************************************************)
C2_SingleSentencePair ==
  variant \in SentenceVariants =>
    /\ Cardinality(highlighted \cap EnglishSentences) <= 1
    /\ Cardinality(highlighted \cap PolishSentences) <= 1

\* a pair of paragraph p2 is highlighted after a pair of paragraph p1 was
C2_Witness ==
  /\ variant \in SentenceVariants
  /\ event = "w5"
  /\ highlighted = {"e3", "t3"}
  /\ selected = {"w5"}
  /\ loadState = "resolved"

(***************************************************************************)
(* C3. Sentence variants: after a click on a word inside a source sentence *)
(* with index s in paragraph p, the highlighted elements are that sentence *)
(* and, when p holds a target sentence with index s, one such target       *)
(* sentence, and nothing else (whatever was highlighted before).           *)
(***************************************************************************)
C3_ExactPair ==
  ( /\ variant \in SentenceVariants
    /\ event \in Words
    /\ WordParent(event) \in EnglishSentences
    /\ SentenceParagraph(WordParent(event)) # NoElement
    /\ DataSentence(WordParent(event)) # Undefined )
  => LET s == WordParent(event)
         targets == {t \in PolishSentences :
                       /\ SentenceParagraph(t) = SentenceParagraph(s)
                       /\ DataSentence(t) = DataSentence(s)}
     IN /\ s \in highlighted
        /\ (highlighted \ {s}) \subseteq targets
        /\ Cardinality(highlighted \ {s}) = (IF targets = {} THEN 0 ELSE 1)

\* the pair with index 1 was cleared by a click in the sentence with index 2
C3_Witness ==
  /\ variant \in SentenceVariants
  /\ event = "w2"
  /\ highlightedSentenceEN = "e2"
  /\ highlightedSentencePL = "t1"
  /\ highlighted = {"e2"}

(***************************************************************************)
(* C4. A click on a word whose identifier is absent from the dictionary    *)
(* leaves the content and the hidden marker of the container as they were. *)
(***************************************************************************)
C4_Step ==
  (event' \in Words /\ IdAbsent(dictionary, DataId(event')))
    => (content' = content /\ hidden' = hidden)

C4_MissIsNoOp == [][C4_Step]_vars

\* a miss on a loaded, non-empty dictionary after an entry was rendered
C4_Witness ==
  /\ event = "w4"
  /\ loadState = "resolved"
  /\ IsArrayOfEntries(dictionary)
  /\ dictionary.items # << >>
  /\ content # InitialContent
  /\ ~threw

(***************************************************************************)
(* C5. While the load is pending the dictionary is empty, and a click on   *)
(* any word then changes neither content nor the hidden marker and does    *)
(* not throw.                                                              *)
(***************************************************************************)
C5_Step ==
  loadState = "pending" =>
    /\ dictionary = EmptyDictionary
    /\ (event' \in Words) => (content' = content /\ hidden' = hidden /\ ~threw')

C5_PendingIsNotFound == [][C5_Step]_vars

\* a word without data-id clicked while the load is still pending
C5_Witness ==
  /\ loadState = "pending"
  /\ event = "w5"
  /\ selected = {"w5"}
  /\ content = InitialContent
  /\ ~threw

(***************************************************************************)
(* C6. If words.json is unavailable or malformed (the load rejects, or the *)
(* parsed value is no array of entries), the dictionary stays empty and no *)
(* click listener throws.                                                  *)
(***************************************************************************)
C6_MalformedLeavesEmpty ==
  (loadState = "rejected" \/ ~IsArrayOfEntries(dictionary))
    => (dictionary = EmptyDictionary /\ ~threw)

(***************************************************************************)
(* C7. Popup variants: after the close control is invoked the container    *)
(* carries "hidden".                                                       *)
(***************************************************************************)
C7_CloseHides ==
  (variant \in PopupVariants /\ event = closeBtn) => hidden

\* closed after an entry had been rendered
C7_Witness ==
  /\ variant \in PopupVariants
  /\ event = closeBtn
  /\ hidden
  /\ content # InitialContent

C8_Step ==
  (event' \in Words /\ IdPresent(dictionary, DataId(event')))
    => /\ content' = Render(variant, FirstEntry(dictionary, DataId(event')))
       /\ IF variant \in PopupVariants THEN ~hidden' ELSE hidden' = hidden

TwoWordClicks ==
  /\ event \in Words
  /\ event' \in Words
  /\ DataId(event) # DataId(event')
  /\ IdPresent(dictionary, DataId(event))
  /\ IdPresent(dictionary, DataId(event'))

C9_OriginalStep ==
  TwoWordClicks
    => /\ content' = Render(variant, FirstEntry(dictionary, DataId(event')))
       /\ ~hidden'
       /\ Cardinality(selected') = 1

C9_Step ==
  TwoWordClicks
    => /\ content' = Render(variant, FirstEntry(dictionary, DataId(event')))
       /\ IF variant \in PopupVariants
          THEN ~hidden' /\ selected' = {}
          ELSE hidden' = hidden /\ selected' = {event'}

C10_Step ==
  (event' \in Elements \ Words)
    => /\ UNCHANGED << dictionary, selectionVars, content >>
       /\ (event' # closeBtn) => (hidden' = hidden)

C10_NonWordIgnored == [][C10_Step]_vars

\* a sentence element clicked while a word, a pair and an entry are shown
C10_Witness ==
  /\ event = "e1"
  /\ selected # {}
  /\ highlighted # {}
  /\ content # InitialContent

(***************************************************************************)
(* C11. Lookup on a dictionary of entries returns the first entry, in      *)
(* dictionary order, whose id equals the identifier, and returns "not      *)
(* found" exactly when no entry has that id.                               *)
(***************************************************************************)
\* the identifiers the word elements of the page carry
LookupIds == {DataId(w) : w \in Words}

C11_FirstMatchWins ==
  IsArrayOfEntries(dictionary) =>
    \A id \in LookupIds :
      LET r == Find(dictionary, id)
          m == Matches(dictionary, id)
      IN /\ (r.res = "undefined") <=> (m = {})
         /\ (m # {}) => (r.res = "found" /\ r.index \in m /\ \A j \in m : r.index <= j)

\* two entries share the id of w1: the click shows the first of them
C11_Witness ==
  /\ dictionary = ArrayValue(<< EntA2, EntA >>)
  /\ event = "w1"
  /\ content = Render(variant, EntA2)

(***************************************************************************)
(* C12. The dictionary is assigned at most once, by the load completion,   *)
(* and never changes afterwards: it is the empty array until the load      *)
(* resolves and the loaded value from then on, whatever is clicked.        *)
(***************************************************************************)
C12_Step ==
  /\ (dictionary' # dictionary)
       => (loadState = "pending" /\ dictionary = EmptyDictionary /\ event' = "load")
  /\ (loadState # "pending") => (loadState' = loadState /\ dictionary' = dictionary)

C12_AssignedOnce == [][C12_Step]_vars

\* the loaded value is still there after a word click rendered one of its entries
C12_Witness ==
  /\ loadState = "resolved"
  /\ dictionary = ArrayValue(<< EntB, EntA >>)
  /\ event = "w2"
  /\ content = Render(variant, EntB)

(***************************************************************************)
(* C13. When the rendered entry has no part of speech or no example, the   *)
(* piece of the content that stands for the absent field is a dash or is   *)
(* left out; it is never the text "undefined".                             *)
(***************************************************************************)
\* the piece of the content written from word.pos
PosPiece(v, c) == IF v \in {"sidebar", "sentenceA"} THEN c[4] ELSE c[2]

\* the piece written from word.example ("" where the script writes none)
ExamplePiece(v, c) ==
  CASE v \in {"sidebar", "sentenceA"} -> c[12]
    [] v = "sentenceB" -> c[8]
    [] v = "popupC" -> IF Len(c) = 12 THEN c[12] ELSE ""
    [] OTHER -> ""

\* the entry a click on the word of the last event rendered
ShownEntry == FirstEntry(dictionary, DataId(event))

\* the last event is a word click that rendered an entry of the dictionary
EntryShown ==
  /\ event \in Words
  /\ IdPresent(dictionary, DataId(event))

C13_NoLiteralUndefined ==
  EntryShown =>
    /\ (ShownEntry.pos = Undefined) => (PosPiece(variant, content) \in {"-", ""})
    /\ (ShownEntry.example = Undefined) => (ExamplePiece(variant, content) \in {"-", ""})

(***************************************************************************)
(* C14. With the dictionary loaded as the single entry of the spec's       *)
(* schema {id, word, pos, definition_en, definition_pl}, a click on the    *)
(* word with that id leaves a content that shows the word, the part of     *)
(* speech and both definitions, in a container that is visible.            *)
(***************************************************************************)
Pieces(c) == {c[i] : i \in 1..Len(c)}

C14_SpecSchemaScenario ==
  (dictionary = ArrayValue(<< EntB >>) /\ event \in Words /\ DataId(event) = EntB.id)
    => /\ {EntB.word, EntB.pos, EntB.definition_en, EntB.definition_pl}
            \subseteq Pieces(content)
       /\ ~hidden

(***************************************************************************)
(* C15. Sentence variants: after a click on a word with no enclosing       *)
(* source sentence no element carries "sentence-highlight".                *)
(***************************************************************************)
C15_NoSourceSentenceNoHighlight ==
  ( /\ variant \in SentenceVariants
    /\ event \in Words
    /\ WordParent(event) \notin EnglishSentences )
  => highlighted = {}

\* a word inside a target sentence clicked while the pair e1/t1 was highlighted
C15_Witness ==
  /\ variant \in SentenceVariants
  /\ event = "w3"
  /\ highlightedSentenceEN = "e1"
  /\ highlightedSentencePL = "t1"
  /\ highlighted = {}

(***************************************************************************)
(* C16. The close action changes nothing but the hidden marker: content,   *)
(* dictionary and selection state stay as they were, and closing a         *)
(* container that is already hidden changes nothing at all.                *)
(***************************************************************************)
C16_Step ==
  (event' = closeBtn)
    => /\ UNCHANGED << variant, loadState, dictionary, selectionVars, content >>
       /\ hidden'
       /\ hidden => (hidden' = hidden)

C16_CloseOnlyHides == [][C16_Step]_vars

\* closed with a loaded dictionary and a rendered entry still in the content
C16_Witness ==
  /\ event = closeBtn
  /\ hidden
  /\ dictionary = ArrayValue(<< EntA, EntB >>)
  /\ content = Render(variant, EntB)

(***************************************************************************)
(* C17 as stated. Sentence variants: a sentence register is non-null only  *)
(* if its element carries "sentence-highlight", and when both are non-null *)
(* they hold a source and a target sentence with the same index (as the   *)
(* selector compares it) in the same paragraph.                            *)
(***************************************************************************)
C17_Original ==
  variant \in SentenceVariants =>
    /\ (highlightedSentenceEN # NoElement) => (highlightedSentenceEN \in highlighted)
    /\ (highlightedSentencePL # NoElement) => (highlightedSentencePL \in highlighted)
    /\ (highlightedSentenceEN # NoElement /\ highlightedSentencePL # NoElement)
         => /\ highlightedSentenceEN \in EnglishSentences
            /\ highlightedSentencePL \in PolishSentences
            /\ SentenceParagraph(highlightedSentenceEN)
                 = SentenceParagraph(highlightedSentencePL)
            /\ ToStr(DataSentence(highlightedSentenceEN))
                 = DataSentence(highlightedSentencePL)

(***************************************************************************)
(* C17 as amended. Sentence variants: every element that carries           *)
(* "sentence-highlight" is the one held by highlightedSentenceEN or by     *)
(* highlightedSentencePL (the registers are never reset, so either may     *)
(* hold a sentence that no longer carries the marker); when both held      *)
(* elements carry the marker they are a source and a target sentence of    *)
(* the same paragraph, the target's index being the text of the source's.  *)
(***************************************************************************)
C17_RegistersCoverHighlights ==
  variant \in SentenceVariants =>
    /\ highlighted \subseteq {highlightedSentenceEN, highlightedSentencePL}
    /\ (highlightedSentenceEN \in highlighted /\ highlightedSentencePL \in highlighted)
         => /\ highlightedSentenceEN \in EnglishSentences
            /\ highlightedSentencePL \in PolishSentences
            /\ SentenceParagraph(highlightedSentenceEN)
                 = SentenceParagraph(highlightedSentencePL)
            /\ ToStr(DataSentence(highlightedSentenceEN))
                 = DataSentence(highlightedSentencePL)

\* both registers are stale after a click on a word outside every sentence
C17_Witness ==
  /\ variant \in SentenceVariants
  /\ event = "w4"
  /\ highlightedSentenceEN = "e3"
  /\ highlightedSentencePL = "t3"
  /\ highlighted = {}

(***************************************************************************)
(* C18. The settlement of the load changes only the dictionary: selected   *)
(* word, sentence highlights, content and hidden marker stay as they were, *)
(* so a word clicked before stays selected with no entry shown.            *)
(***************************************************************************)
C18_Step ==
  (event' \in {"load", "reject"})
    => UNCHANGED << variant, selectionVars, content, hidden >>

C18_LoadChangesOnlyDictionary == [][C18_Step]_vars

\* the entry of the selected word w1 has arrived and is not shown
C18_Witness ==
  /\ event = "load"
  /\ selected = {"w1"}
  /\ dictionary = ArrayValue(<< EntA >>)
  /\ content = InitialContent

(***************************************************************************)
(* C19. A click on the word that was clicked last, with no event between,  *)
(* changes nothing: markers, registers, sentence highlights, content and   *)
(* hidden marker are those the first click left, and the word is still     *)
(* marked "selected" in the sidebar variants.                              *)
(***************************************************************************)
C19_Step ==
  (event \in Words /\ event' = event)
    => /\ UNCHANGED << variant, loadState, dictionary, selectionVars, content, hidden,
                       threw >>
       /\ (variant \in SidebarVariants) => (event' \in selected')

C19_RepeatedClickIdempotent == [][C19_Step]_vars

\* the state a first and a second click on w1 both leave
C19_Witness ==
  /\ variant \in SentenceVariants
  /\ event = "w1"
  /\ selected = {"w1"}
  /\ highlighted = {"e1", "t1"}
  /\ dictionary = ArrayValue(<< EntA >>)
  /\ content = Render(variant, EntA)

====
